---- MODULE Spec2Model ----
(***************************************************************************)
(* Model of pydps.py: the PyDPS client of a DPS power supply.              *)
(*                                                                         *)
(* Numbers.  Python numbers are modelled exactly as rationals with the     *)
(* common denominator Unit: the number x is the integer x * Unit.  Unit is *)
(* 100 * 11, so that a register scaled by 0.01 and a division by 1.1 are   *)
(* both exact.  A Python value is a record [t, n]: its type t ("int",      *)
(* "bool", "float", "str", "None") and its number n (0 for "str"/"None").  *)
(***************************************************************************)
EXTENDS Integers, Sequences, FiniteSets, TLC

VARIABLES
    state,          \* "Uninitialized" | "Ready" | "Failed": life cycle of the PyDPS object
    registers,      \* the device's holding registers: address -> raw 16-bit value
    ParameterInfo,  \* self.ParameterInfo: address -> ParamInfo
    SettingInfo,    \* self.SettingInfo: relative address -> ParamInfo
    call,           \* the last call made on the client
    result,         \* what that call returned or raised
    io,             \* the transport calls that call issued, in order
    sets            \* number of set_parameter calls made on the constructed client

vars == <<state, registers, ParameterInfo, SettingInfo, call, result, io, sets>>

-----------------------------------------------------------------------------
(* Bounds of the model *)

\* integer arguments tried by set_parameter are -1 .. MaxInt
MaxInt == 5
\* set_parameter calls made on one constructed client
MaxSets == 1

-----------------------------------------------------------------------------
(* ParamName, SettingName, DataGroup *)

V_SET == 0
I_SET == 1
V_OUT == 2
I_OUT == 3
P_OUT == 4
V_IN == 5
LOCK == 6
PROTECT == 7
CV_CC == 8
ON_OFF == 9
B_LED == 10
MODEL == 11
VERSION == 12

ParamName == {V_SET, I_SET, V_OUT, I_OUT, P_OUT, V_IN, LOCK, PROTECT, CV_CC,
              ON_OFF, B_LED, MODEL, VERSION}

SettingName_V_SET == 0
SettingName_I_SET == 1
OVP == 2
OCP == 3
OPP == 4
SettingName_B_LED == 5
M_PRE == 6
INI == 7

SettingName == {SettingName_V_SET, SettingName_I_SET, OVP, OCP, OPP,
                SettingName_B_LED, M_PRE, INI}

\* base addresses M0 .. M9
DataGroup == {16 * m : m \in 0..9}

-----------------------------------------------------------------------------
(* Numbers and values *)

Unit == 100 * 11

RegisterMax == 2^16 - 1

None == [t |-> "None", n |-> 0]
IntValue(i) == [t |-> "int", n |-> i * Unit]
BoolValue(b) == [t |-> "bool", n |-> IF b THEN Unit ELSE 0]
FloatValue(n) == [t |-> "float", n |-> n]
StrValue == [t |-> "str", n |-> 0]

Pow10(d) == IF d = 0 THEN 1 ELSE IF d = 1 THEN 10 ELSE 100

\* integer part of a rational, as Python's int(): towards zero
Trunc(num, den) == IF num >= 0 THEN num \div den ELSE -((-num) \div den)

-----------------------------------------------------------------------------
(* ParamInfo and the two tables of __init__ *)

NoRange == <<>>

ParamInfo(read, write, unit, value_range, integer) ==
    [read |-> read, write |-> write, unit |-> unit,
     value_range |-> value_range, integer |-> integer]

Range(lo, hi) == <<lo, hi>>

StaticParameterInfo ==
    [a \in ParamName |->
        CASE a = V_SET   -> ParamInfo(TRUE, TRUE, "V", NoRange, FALSE)
          [] a = I_SET   -> ParamInfo(TRUE, TRUE, "A", NoRange, FALSE)
          [] a = V_OUT   -> ParamInfo(TRUE, FALSE, "V", NoRange, FALSE)
          [] a = I_OUT   -> ParamInfo(TRUE, FALSE, "A", NoRange, FALSE)
          [] a = P_OUT   -> ParamInfo(TRUE, FALSE, "W", NoRange, FALSE)
          [] a = V_IN    -> ParamInfo(TRUE, FALSE, "V", NoRange, FALSE)
          [] a = LOCK    -> ParamInfo(TRUE, TRUE, "-", Range(0, 1 * Unit), TRUE)
          [] a = PROTECT -> ParamInfo(TRUE, FALSE, "-", Range(0, 1 * Unit), TRUE)
          [] a = CV_CC   -> ParamInfo(TRUE, FALSE, "-", Range(0, 1 * Unit), TRUE)
          [] a = ON_OFF  -> ParamInfo(TRUE, TRUE, "-", Range(0, 1 * Unit), TRUE)
          [] a = B_LED   -> ParamInfo(TRUE, TRUE, "-", Range(0, 5 * Unit), TRUE)
          [] a = MODEL   -> ParamInfo(TRUE, FALSE, "-", NoRange, FALSE)
          [] a = VERSION -> ParamInfo(TRUE, FALSE, "-", NoRange, FALSE)]

StaticSettingInfo ==
    [a \in SettingName |->
        CASE a = SettingName_V_SET -> ParamInfo(TRUE, TRUE, "V", NoRange, FALSE)
          [] a = SettingName_I_SET -> ParamInfo(TRUE, TRUE, "A", NoRange, FALSE)
          [] a = OVP               -> ParamInfo(TRUE, TRUE, "V", NoRange, FALSE)
          [] a = OCP               -> ParamInfo(TRUE, TRUE, "A", NoRange, FALSE)
          [] a = OPP               -> ParamInfo(TRUE, TRUE, "W", NoRange, FALSE)
          [] a = SettingName_B_LED -> ParamInfo(TRUE, TRUE, "-", Range(0, 5 * Unit), TRUE)
          [] a = M_PRE             -> ParamInfo(TRUE, TRUE, "-", Range(0, 9 * Unit), TRUE)
          [] a = INI               -> ParamInfo(TRUE, TRUE, "-", Range(0, 1 * Unit), TRUE)]

-----------------------------------------------------------------------------
(* The transport (minimalmodbus.Instrument) as pydps.py calls it *)

IoRead(address, decimals) ==
    [f |-> "read_register", address |-> address, arg |-> decimals]
IoReads(address, count) ==
    [f |-> "read_registers", address |-> address, arg |-> count]
IoWrite(address, decimals) ==
    [f |-> "write_register", address |-> address, arg |-> decimals]

\* read_register(address, numberOfDecimals): the register divided by
\* 10^numberOfDecimals; an int when numberOfDecimals is 0, a float otherwise
read_register(regs, address, decimals) ==
    [t |-> IF decimals = 0 THEN "int" ELSE "float",
     n |-> (regs[address] * Unit) \div Pow10(decimals)]

\* read_registers(start, count): the raw registers start .. start + count - 1
read_registers(regs, start, count) ==
    [i \in 1..count |-> regs[start + i - 1]]

\* The raw values write_register(address, value, numberOfDecimals) may store:
\* int(float(value) * 10^numberOfDecimals).  The product is a binary
\* floating-point product: for a value with two decimals that is not a
\* multiple of 0.25 it may fall just below the exact integer, which int() then
\* truncates to one less (0.29 * 100 -> 28).
ScaledRaws(value, decimals) ==
    LET per == Unit \div Pow10(decimals)
        exact == Trunc(value.n, per)
    IN  IF decimals > 0 /\ value.n % per = 0 /\ exact > 0 /\ exact % 25 # 0
        THEN {exact, exact - 1}
        ELSE {exact}

-----------------------------------------------------------------------------
(* The messages of the ValueErrors pydps.py raises, and other exceptions *)

UnknownParameter == "The parameter address is not known"
NotWritable == "The parameter is not writable"
TypeMismatch == "The value needs to be integer or boolean"
NoValueRange == "No value range is given"
OutOfRange == "Value outside of allowed range"
\* Python's TypeError: '<' between a str and a number
PyTypeError == "TypeError"
\* the transport could not reach the device (minimalmodbus raises an IOError)
TransportError == "IOError"
\* the transport cannot pack the scaled value into 16 bits
TransportValueError == "ValueError: value does not fit a register"

\* What a call produced: the exception raised ("" when it returned), the
\* number returned (ret), the dictionary returned by a batch query (data) or
\* the ParamInfo returned by get_parameter_info (info)
NoData == <<>>
NoInfo == [read |-> FALSE, write |-> FALSE, unit |-> "", value_range |-> <<>>,
           integer |-> FALSE]
Return(v) == [exc |-> "", ret |-> v, data |-> NoData, info |-> NoInfo]
ReturnData(d) == [exc |-> "", ret |-> None, data |-> d, info |-> NoInfo]
ReturnInfo(i) == [exc |-> "", ret |-> None, data |-> NoData, info |-> i]
Raise(msg) == [exc |-> msg, ret |-> None, data |-> NoData, info |-> NoInfo]

-----------------------------------------------------------------------------
(* Variable and value checks *)

\* a name is an enum member [k |-> its class, v |-> its value] or a raw
\* address [k |-> "int", v |-> the address]
\* ("Enum": a member of some other enum.Enum class)
IsEnum(name) == name.k \in {"ParamName", "SettingName", "DataGroup", "Enum"}

\* _check_name: the address, or the exception raised
check_name(PI, name) ==
    LET address == IF IsEnum(name) THEN name.v ELSE name.v
    IN  IF address \notin DOMAIN PI
        THEN [exc |-> UnknownParameter, address |-> address]
        ELSE [exc |-> "", address |-> address]

\* the ParamInfo that _check_writable and _check_value look at
InfoOf(PI, SI, address) ==
    IF address \in DOMAIN PI THEN PI[address] ELSE SI[address]

\* faulty variant: the setting table is looked at first
check_writable_settings_first(PI, SI, address) ==
    LET writable == IF address \in DOMAIN SI THEN SI[address].write
                    ELSE PI[address].write
    IN  IF ~writable THEN NotWritable ELSE ""

\* _check_writable: "" or the exception raised
check_writable(PI, SI, address) ==
    LET writable == InfoOf(PI, SI, address).write
    IN  IF ~writable THEN NotWritable ELSE ""

\* isinstance(value, (int, bool, np.int8, ...)): bool is an int in Python
IsIntegerType(value) == value.t \in {"int", "bool"}

\* can Python order the value against a number
IsNumber(value) == value.t \in {"int", "bool", "float"}

\* faulty variant: the upper bound itself is refused
check_value_strict_upper(PI, SI, address, value) ==
    LET info == InfoOf(PI, SI, address)
        value_range == info.value_range
    IN  IF info.integer /\ ~IsIntegerType(value)
        THEN [exc |-> TypeMismatch, integer |-> info.integer]
        ELSE IF value_range = NoRange
        THEN [exc |-> NoValueRange, integer |-> info.integer]
        ELSE IF ~IsNumber(value)
        THEN [exc |-> PyTypeError, integer |-> info.integer]
        ELSE IF value.n < value_range[1] \/ value.n >= value_range[2]
        THEN [exc |-> OutOfRange, integer |-> info.integer]
        ELSE [exc |-> "", integer |-> info.integer]

\* faulty variant: the type of the value is not checked
check_value_no_type_check(PI, SI, address, value) ==
    LET info == InfoOf(PI, SI, address)
        value_range == info.value_range
    IN  IF value_range = NoRange
        THEN [exc |-> NoValueRange, integer |-> info.integer]
        ELSE IF ~IsNumber(value)
        THEN [exc |-> PyTypeError, integer |-> info.integer]
        ELSE IF value.n < value_range[1] \/ value.n > value_range[2]
        THEN [exc |-> OutOfRange, integer |-> info.integer]
        ELSE [exc |-> "", integer |-> info.integer]

\* faulty variant: the range is checked before the type
check_value_range_first(PI, SI, address, value) ==
    LET info == InfoOf(PI, SI, address)
        value_range == info.value_range
    IN  IF value_range = NoRange
        THEN [exc |-> NoValueRange, integer |-> info.integer]
        ELSE IF ~IsNumber(value)
        THEN [exc |-> PyTypeError, integer |-> info.integer]
        ELSE IF value.n < value_range[1] \/ value.n > value_range[2]
        THEN [exc |-> OutOfRange, integer |-> info.integer]
        ELSE IF info.integer /\ ~IsIntegerType(value)
        THEN [exc |-> TypeMismatch, integer |-> info.integer]
        ELSE [exc |-> "", integer |-> info.integer]

\* _check_value: the exception raised, or info.integer
check_value(PI, SI, address, value) ==
    LET info == InfoOf(PI, SI, address)
        value_range == info.value_range
    IN  IF info.integer /\ ~IsIntegerType(value)
        THEN [exc |-> TypeMismatch, integer |-> info.integer]
        ELSE IF value_range = NoRange
        THEN [exc |-> NoValueRange, integer |-> info.integer]
        ELSE IF ~IsNumber(value)
        THEN [exc |-> PyTypeError, integer |-> info.integer]
        ELSE IF value.n < value_range[1] \/ value.n > value_range[2]
        THEN [exc |-> OutOfRange, integer |-> info.integer]
        ELSE [exc |-> "", integer |-> info.integer]

-----------------------------------------------------------------------------
(* Generic getters and setters *)

\* faulty variant: the register is read before the name is checked
get_parameter_read_first(PI, regs, name) ==
    LET chk == check_name(PI, name)
    IN  IF chk.exc # ""
        THEN [res |-> Raise(chk.exc), io |-> <<IoRead(chk.address, 2)>>]
        ELSE [res |-> Return(read_register(regs, chk.address, 2)),
              io |-> <<IoRead(chk.address, 2)>>]

\* faulty variant: the register is read without decimals
get_parameter_no_decimals(PI, regs, name) ==
    LET chk == check_name(PI, name)
    IN  IF chk.exc # ""
        THEN [res |-> Raise(chk.exc), io |-> <<>>]
        ELSE [res |-> Return(read_register(regs, chk.address, 0)),
              io |-> <<IoRead(chk.address, 0)>>]

\* get_parameter: what it returns or raises, and the transport calls it makes
get_parameter(PI, regs, name) ==
    LET chk == check_name(PI, name)
    IN  IF chk.exc # ""
        THEN [res |-> Raise(chk.exc), io |-> <<>>]
        ELSE [res |-> Return(read_register(regs, chk.address, 2)),
              io |-> <<IoRead(chk.address, 2)>>]

\* faulty variant: every value is written without decimals
set_parameter_checks_no_decimals(PI, SI, name, value) ==
    LET chk == check_name(PI, name)
        address == chk.address
    IN  IF chk.exc # ""
        THEN [exc |-> chk.exc, address |-> address, decimals |-> 0]
        ELSE IF check_writable(PI, SI, address) # ""
        THEN [exc |-> check_writable(PI, SI, address), address |-> address, decimals |-> 0]
        ELSE LET boolean == check_value(PI, SI, address, value)
             IN  [exc |-> boolean.exc, address |-> address, decimals |-> 0]

\* set_parameter up to the write: the exception of the first failing check, or
\* the address and the number of decimals handed to write_register
set_parameter_checks(PI, SI, name, value) ==
    LET chk == check_name(PI, name)
        address == chk.address
    IN  IF chk.exc # ""
        THEN [exc |-> chk.exc, address |-> address, decimals |-> 0]
        ELSE IF check_writable(PI, SI, address) # ""
        THEN [exc |-> check_writable(PI, SI, address), address |-> address, decimals |-> 0]
        ELSE LET boolean == check_value(PI, SI, address, value)
             IN  IF boolean.exc # ""
                 THEN [exc |-> boolean.exc, address |-> address, decimals |-> 0]
                 ELSE [exc |-> "", address |-> address,
                       decimals |-> IF boolean.integer THEN 0 ELSE 2]

\* get_parameter_info: the ParamInfo returned, or the exception raised
get_parameter_info(PI, name) ==
    LET chk == check_name(PI, name)
    IN  IF chk.exc # ""
        THEN Raise(chk.exc)
        ELSE ReturnInfo(PI[chk.address])

-----------------------------------------------------------------------------
(* Lists of parameters at once *)

\* raw * 0.01
Times001(raw) == FloatValue((raw * Unit) \div 100)

\* round(x, 2): the nearest multiple of 0.01
Round2(value) ==
    FloatValue(((value.n * 100 + Unit \div 2) \div Unit) * (Unit \div 100))

\* a raw register taken as it is (an int)
Raw(raw) == IntValue(raw)

get_all_parameters(regs) ==
    LET response == read_registers(regs, 0, 13)
    IN  [res |-> ReturnData(
            (V_SET :> Times001(response[1])) @@
            (I_SET :> Times001(response[2])) @@
            (V_OUT :> Round2(Times001(response[3]))) @@
            (I_OUT :> Round2(Times001(response[4]))) @@
            (P_OUT :> Round2(Times001(response[5]))) @@
            (V_IN :> Times001(response[6])) @@
            (LOCK :> Raw(response[7])) @@
            (PROTECT :> Raw(response[8])) @@
            (CV_CC :> Raw(response[9])) @@
            (ON_OFF :> Raw(response[10])) @@
            (B_LED :> Raw(response[11])) @@
            (MODEL :> Raw(response[12])) @@
            (VERSION :> Raw(response[13]))),
         io |-> <<IoReads(0, 13)>>]

\* faulty variant: the dictionary of get_all_parameters is returned
get_all_variables_as_parameters(regs) ==
    [res |-> get_all_parameters(regs).res, io |-> <<IoReads(0, 11)>>]

get_all_variables(regs) ==
    LET response == read_registers(regs, 0, 11)
    IN  [res |-> ReturnData(
            (V_SET :> Times001(response[1])) @@
            (I_SET :> Times001(response[2])) @@
            (V_OUT :> Round2(Times001(response[3]))) @@
            (I_OUT :> Round2(Times001(response[4]))) @@
            (P_OUT :> Round2(Times001(response[5]))) @@
            (V_IN :> Times001(response[6])) @@
            (LOCK :> Raw(response[7])) @@
            (PROTECT :> Raw(response[8])) @@
            (CV_CC :> Raw(response[9])) @@
            (ON_OFF :> Raw(response[10])) @@
            (B_LED :> Raw(response[11]))),
         io |-> <<IoReads(0, 11)>>]

\* faulty variant: the slots of V_OUT and I_OUT are taken for each other
get_all_measurements_swapped(regs) ==
    LET response == read_registers(regs, V_OUT, 4)
    IN  [res |-> ReturnData(
            (V_OUT :> Round2(Times001(response[2]))) @@
            (I_OUT :> Round2(Times001(response[1]))) @@
            (P_OUT :> Round2(Times001(response[3]))) @@
            (V_IN :> Round2(Times001(response[4])))),
         io |-> <<IoReads(V_OUT, 4)>>]

get_all_measurements(regs) ==
    LET response == read_registers(regs, V_OUT, 4)
    IN  [res |-> ReturnData(
            (V_OUT :> Round2(Times001(response[1]))) @@
            (I_OUT :> Round2(Times001(response[2]))) @@
            (P_OUT :> Round2(Times001(response[3]))) @@
            (V_IN :> Round2(Times001(response[4])))),
         io |-> <<IoReads(V_OUT, 4)>>]

get_set_values(regs) ==
    LET response == read_registers(regs, V_SET, 2)
    IN  [res |-> ReturnData(
            (V_SET :> Round2(Times001(response[1]))) @@
            (I_SET :> Round2(Times001(response[2])))),
         io |-> <<IoReads(V_SET, 2)>>]

get_full_state_info(regs) ==
    LET response == read_registers(regs, LOCK, 4)
    IN  [res |-> ReturnData(
            (LOCK :> Raw(response[1])) @@
            (PROTECT :> Raw(response[2])) @@
            (CV_CC :> Raw(response[3])) @@
            (ON_OFF :> Raw(response[4]))),
         io |-> <<IoReads(LOCK, 4)>>]

get_device_info(regs) ==
    LET response == read_registers(regs, MODEL, 2)
    IN  [res |-> ReturnData(
            (MODEL :> Raw(response[1])) @@
            (VERSION :> Raw(response[2]))),
         io |-> <<IoReads(MODEL, 2)>>]

BatchQueries == {"get_all_parameters", "get_all_variables", "get_all_measurements",
                 "get_set_values", "get_full_state_info", "get_device_info"}

\* the batch query of that name
BatchQuery(q, regs) ==
    CASE q = "get_all_parameters"   -> get_all_parameters(regs)
      [] q = "get_all_variables"    -> get_all_variables(regs)
      [] q = "get_all_measurements" -> get_all_measurements(regs)
      [] q = "get_set_values"       -> get_set_values(regs)
      [] q = "get_full_state_info"  -> get_full_state_info(regs)
      [] q = "get_device_info"      -> get_device_info(regs)

-----------------------------------------------------------------------------
(* __init__: the ranges read from the connected power supply *)

\* get_model() and get_input_voltage()
get_model(PI, regs) == get_parameter(PI, regs, [k |-> "ParamName", v |-> MODEL])
get_input_voltage(PI, regs) == get_parameter(PI, regs, [k |-> "ParamName", v |-> V_IN])

\* str(model).split("."): the float raw / 100 prints as its integer part, a
\* period and its decimals without trailing zeros, but at least one decimal
\* (50.15 -> "50.15", 50.1 -> "50.1", 50.0 -> "50.0"); each part as digits
ModelParts(model) ==
    LET cents == (model.n * 100) \div Unit
        whole == cents \div 100
        frac == cents % 100
    IN  <<whole, IF frac % 10 = 0 THEN <<frac \div 10>> ELSE <<frac \div 10, frac % 10>>>>

\* int() of a string of digits
IntOfDigits(digits) ==
    IF Len(digits) = 1 THEN digits[1] ELSE 10 * digits[1] + digits[2]

\* faulty variant: x * 1.1
MultiplyBy1_1(value) == FloatValue((value.n * 11) \div 10)

\* x / 1.1
DivideBy1_1(value) == FloatValue((value.n * 10) \div 11)

\* faulty variant: the range of I_SET is left unset
PopulatedParameterInfo_no_current(PI, model, input_voltage) ==
    LET current == IntOfDigits(ModelParts(model)[2])
        max_current == current
        max_voltage == DivideBy1_1(input_voltage)
    IN  [PI EXCEPT
            ![V_SET].value_range = Range(0, max_voltage.n),
            ![V_OUT].value_range = Range(0, max_voltage.n),
            ![I_OUT].value_range = Range(0, max_current * Unit),
            ![P_OUT].value_range = Range(0, max_current * max_voltage.n)]

\* the ParameterInfo and SettingInfo that lines 150-167 leave
PopulatedParameterInfo(PI, model, input_voltage) ==
    LET current == IntOfDigits(ModelParts(model)[2])
        max_current == current
        max_voltage == DivideBy1_1(input_voltage)
    IN  [PI EXCEPT
            ![V_SET].value_range = Range(0, max_voltage.n),
            ![I_SET].value_range = Range(0, max_current * Unit),
            ![V_OUT].value_range = Range(0, max_voltage.n),
            ![I_OUT].value_range = Range(0, max_current * Unit),
            ![P_OUT].value_range = Range(0, max_current * max_voltage.n)]

PopulatedSettingInfo(SI, model, input_voltage) ==
    LET voltage == ModelParts(model)[1]
        current == IntOfDigits(ModelParts(model)[2])
        max_current == current
        max_voltage == DivideBy1_1(input_voltage)
    IN  [SI EXCEPT
            ![SettingName_V_SET].value_range = Range(0, max_voltage.n),
            ![SettingName_I_SET].value_range = Range(0, max_current * Unit),
            ![OVP].value_range = Range(0, (voltage * 102 * Unit) \div 100),
            ![OCP].value_range = Range(0, (current * 101 * Unit) \div 100),
            ![OPP].value_range = Range(0, (current * voltage * 101 * Unit) \div 100)]

-----------------------------------------------------------------------------
(* The devices, names and values the model tries *)

\* register contents a device may hold
RawSamples == <<0, 1, 1234, RegisterMax>>

\* model number and input voltage registers of the devices tried: the first is
\* the DPS5015 at 48 V of the tests
DeviceModels == <<5015, 3005>>
DeviceInputVoltages == <<4800, 1200>>
Devices == 1..Len(DeviceModels)
Rotations == 0..(Len(RawSamples) - 1)

\* the registers of device d: its model, its input voltage, and elsewhere
\* the samples in turn, starting k samples on
DeviceRegisters(d, k) ==
    [a \in ParamName |->
        CASE a = MODEL -> DeviceModels[d]
          [] a = V_IN -> DeviceInputVoltages[d]
          [] OTHER -> RawSamples[((a + k) % Len(RawSamples)) + 1]]

ParamNameArg(a) == [k |-> "ParamName", v |-> a]
SettingNameArg(a) == [k |-> "SettingName", v |-> a]
DataGroupArg(a) == [k |-> "DataGroup", v |-> a]
EnumArg(a) == [k |-> "Enum", v |-> a]
AddressArg(a) == [k |-> "int", v |-> a]

\* raw addresses tried: a parameter, over-voltage protection of memory slot 1
\* (0x12), and 0xFF
RawAddresses == {LOCK, 16 + 2, 255}

NameArgs ==
    {ParamNameArg(a) : a \in ParamName}
    \cup {SettingNameArg(a) : a \in SettingName}
    \cup {DataGroupArg(a) : a \in {0, 16}}
    \cup {EnumArg(255)}
    \cup {AddressArg(a) : a \in RawAddresses}

NoName == AddressArg(-1)

\* the largest multiple of 0.01 that is at most n
Floor2(n) == (n \div (Unit \div 100)) * (Unit \div 100)

\* values tried against a parameter of that range: its bounds, the numbers
\* just outside them, and the largest two-decimal number inside
EdgeArgs(value_range) ==
    IF value_range = NoRange THEN {}
    ELSE {FloatValue(value_range[1] - 1), FloatValue(value_range[1]),
          FloatValue(value_range[2]), FloatValue(value_range[2] + 1),
          FloatValue(Floor2(value_range[2])),
          IntValue(value_range[2] \div Unit + 1)}

ValueArgs(PI, name) ==
    {IntValue(i) : i \in -1..MaxInt}
    \cup {BoolValue(b) : b \in BOOLEAN}
    \cup {FloatValue(c * (Unit \div 100)) : c \in {1, 29, 50, 100}}
    \cup {StrValue}
    \cup (IF name.v \in DOMAIN PI THEN EdgeArgs(PI[name.v].value_range) ELSE {})

-----------------------------------------------------------------------------
(* The state machine *)

Call(op, name, value) == [op |-> op, name |-> name, value |-> value]

\* before lines 147-167 of __init__: the static tables are in place, the
\* device holds some registers
Init ==
    /\ state = "Uninitialized"
    /\ \E d \in Devices : registers = DeviceRegisters(d, d)
    /\ ParameterInfo = StaticParameterInfo
    /\ SettingInfo = StaticSettingInfo
    /\ call = Call("", NoName, None)
    /\ result = Return(None)
    /\ io = <<>>
    /\ sets = 0

\* faulty variant: the ranges that need the model alone are populated before
\* the input voltage is read
Construct_populate_early ==
    /\ state = "Uninitialized"
    /\ call' = Call("__init__", NoName, None)
    /\ \E failure \in {"none", "get_model", "get_input_voltage"} :
        LET model == get_model(ParameterInfo, registers)
            input_voltage == get_input_voltage(ParameterInfo, registers)
            current == IntOfDigits(ModelParts(model.res.ret)[2])
        IN  IF failure = "get_model"
            THEN /\ state' = "Failed"
                 /\ result' = Raise(TransportError)
                 /\ io' = model.io
                 /\ UNCHANGED <<ParameterInfo, SettingInfo>>
            ELSE IF failure = "get_input_voltage"
            THEN /\ state' = "Failed"
                 /\ result' = Raise(TransportError)
                 /\ io' = model.io \o input_voltage.io
                 /\ ParameterInfo' = [ParameterInfo EXCEPT
                        ![I_SET].value_range = Range(0, current * Unit)]
                 /\ UNCHANGED SettingInfo
            ELSE /\ state' = "Ready"
                 /\ result' = Return(None)
                 /\ io' = model.io \o input_voltage.io
                 /\ ParameterInfo' = PopulatedParameterInfo(
                        ParameterInfo, model.res.ret, input_voltage.res.ret)
                 /\ SettingInfo' = PopulatedSettingInfo(
                        SettingInfo, model.res.ret, input_voltage.res.ret)
    /\ UNCHANGED <<registers, sets>>

\* __init__, lines 147-167: read the model and the input voltage, populate the
\* ranges.  Either read may fail in the transport, which ends the constructor.
Construct ==
    /\ state = "Uninitialized"
    /\ call' = Call("__init__", NoName, None)
    /\ \E failure \in {"none", "get_model", "get_input_voltage"} :
        LET model == get_model(ParameterInfo, registers)
            input_voltage == get_input_voltage(ParameterInfo, registers)
        IN  IF failure = "get_model"
            THEN /\ state' = "Failed"
                 /\ result' = Raise(TransportError)
                 /\ io' = model.io
                 /\ UNCHANGED <<ParameterInfo, SettingInfo>>
            ELSE IF failure = "get_input_voltage"
            THEN /\ state' = "Failed"
                 /\ result' = Raise(TransportError)
                 /\ io' = model.io \o input_voltage.io
                 /\ UNCHANGED <<ParameterInfo, SettingInfo>>
            ELSE /\ state' = "Ready"
                 /\ result' = Return(None)
                 /\ io' = model.io \o input_voltage.io
                 /\ ParameterInfo' = PopulatedParameterInfo(
                        ParameterInfo, model.res.ret, input_voltage.res.ret)
                 /\ SettingInfo' = PopulatedSettingInfo(
                        SettingInfo, model.res.ret, input_voltage.res.ret)
    /\ UNCHANGED <<registers, sets>>

\* the client exists
Ready == state = "Ready"

GetParameter ==
    /\ Ready
    /\ \E name \in NameArgs :
        LET r == get_parameter(ParameterInfo, registers, name)
        IN  /\ call' = Call("get_parameter", name, None)
            /\ result' = r.res
            /\ io' = r.io
    /\ UNCHANGED <<state, registers, ParameterInfo, SettingInfo, sets>>

\* faulty variant: the register is written before the checks are made
set_parameter_write_first(name, value) ==
    LET chk == set_parameter_checks(ParameterInfo, SettingInfo, name, value)
        decimals == IF chk.exc # "" THEN 2 ELSE chk.decimals
    IN  /\ call' = Call("set_parameter", name, value)
        /\ \E raw \in ScaledRaws(value, decimals) :
            /\ io' = <<IoWrite(chk.address, decimals)>>
            /\ IF raw \in 0..RegisterMax /\ chk.address \in DOMAIN registers
               THEN /\ registers' = [registers EXCEPT ![chk.address] = raw]
                    /\ result' = IF chk.exc # "" THEN Raise(chk.exc) ELSE Return(None)
               ELSE /\ result' = Raise(TransportValueError)
                    /\ UNCHANGED registers

\* set_parameter(name, value): the checks, then the one write_register
set_parameter(name, value) ==
    LET chk == set_parameter_checks(ParameterInfo, SettingInfo, name, value)
    IN  /\ call' = Call("set_parameter", name, value)
        /\ IF chk.exc # ""
           THEN /\ result' = Raise(chk.exc)
                /\ io' = <<>>
                /\ UNCHANGED registers
           ELSE \E raw \in ScaledRaws(value, chk.decimals) :
                /\ io' = <<IoWrite(chk.address, chk.decimals)>>
                /\ IF raw \in 0..RegisterMax
                   THEN /\ registers' = [registers EXCEPT ![chk.address] = raw]
                        /\ result' = Return(None)
                   ELSE /\ result' = Raise(TransportValueError)
                        /\ UNCHANGED registers

SetParameter ==
    /\ Ready
    /\ sets < MaxSets
    /\ sets' = sets + 1
    /\ \E name \in NameArgs : \E value \in ValueArgs(ParameterInfo, name) :
        set_parameter(name, value)
    /\ UNCHANGED <<state, ParameterInfo, SettingInfo>>

GetParameterInfo ==
    /\ Ready
    /\ \E name \in NameArgs :
        /\ call' = Call("get_parameter_info", name, None)
        /\ result' = get_parameter_info(ParameterInfo, name)
        /\ io' = <<>>
    /\ UNCHANGED <<state, registers, ParameterInfo, SettingInfo, sets>>

Batch(q) ==
    /\ Ready
    /\ call' = Call(q, NoName, None)
    /\ result' = BatchQuery(q, registers).res
    /\ io' = BatchQuery(q, registers).io
    /\ UNCHANGED <<state, registers, ParameterInfo, SettingInfo, sets>>

GetAllParameters == Batch("get_all_parameters")
GetAllVariables == Batch("get_all_variables")
GetAllMeasurements == Batch("get_all_measurements")
GetSetValues == Batch("get_set_values")
GetFullStateInfo == Batch("get_full_state_info")
GetDeviceInfo == Batch("get_device_info")

Next ==
    \/ Construct
    \/ GetParameter
    \/ SetParameter
    \/ GetParameterInfo
    \/ GetAllParameters
    \/ GetAllVariables
    \/ GetAllMeasurements
    \/ GetSetValues
    \/ GetFullStateInfo
    \/ GetDeviceInfo

Spec == Init /\ [][Next]_vars

\* The reading calls alone, over more register contents
InitRead ==
    /\ state = "Uninitialized"
    /\ \E d \in Devices : \E k \in Rotations : registers = DeviceRegisters(d, k)
    /\ ParameterInfo = StaticParameterInfo
    /\ SettingInfo = StaticSettingInfo
    /\ call = Call("", NoName, None)
    /\ result = Return(None)
    /\ io = <<>>
    /\ sets = 0

NextRead ==
    \/ Construct
    \/ GetParameter
    \/ GetParameterInfo
    \/ GetAllParameters
    \/ GetAllVariables
    \/ GetAllMeasurements
    \/ GetSetValues
    \/ GetFullStateInfo
    \/ GetDeviceInfo

SpecRead == InitRead /\ [][NextRead]_vars

\* Construction and set_parameter over more devices: every voltage and current
\* rating of ModelVoltages and ModelCurrents at every input voltage register of
\* InputVoltages, with the values at the edges of each range
ModelVoltages == {0, 50, 99}
ModelCurrents == {0, 5, 15, 20, 99}
InputVoltages == {0, 1, 1200, 4800, RegisterMax}

\* the registers of a device with that model and input voltage register
RatedRegisters(model, input_voltage) ==
    [a \in ParamName |->
        CASE a = MODEL -> model
          [] a = V_IN -> input_voltage
          [] OTHER -> RawSamples[(a % Len(RawSamples)) + 1]]

DeviceNameArgs == {ParamNameArg(a) : a \in ParamName} \cup {AddressArg(255)}

DeviceValueArgs(PI, name) ==
    {IntValue(0), IntValue(1), StrValue}
    \cup (IF name.v \in DOMAIN PI /\ PI[name.v].value_range # NoRange
          THEN EdgeArgs(PI[name.v].value_range)
               \cup {IntValue(PI[name.v].value_range[2] \div Unit)}
          ELSE {})

InitDevices ==
    /\ state = "Uninitialized"
    /\ \E vv \in ModelVoltages : \E cc \in ModelCurrents : \E vin \in InputVoltages :
        registers = RatedRegisters(100 * vv + cc, vin)
    /\ ParameterInfo = StaticParameterInfo
    /\ SettingInfo = StaticSettingInfo
    /\ call = Call("", NoName, None)
    /\ result = Return(None)
    /\ io = <<>>
    /\ sets = 0

SetParameterDevices ==
    /\ Ready
    /\ sets < MaxSets
    /\ sets' = sets + 1
    /\ \E name \in DeviceNameArgs : \E value \in DeviceValueArgs(ParameterInfo, name) :
        set_parameter(name, value)
    /\ UNCHANGED <<state, ParameterInfo, SettingInfo>>

NextDevices ==
    \/ Construct
    \/ SetParameterDevices

SpecDevices == InitDevices /\ [][NextDevices]_vars

-----------------------------------------------------------------------------
(* Vocabulary of the properties *)

\* the known parameter address space and the setting address space
ParameterSpace == ParamName
SettingSpace == {base + offset : base \in DataGroup, offset \in SettingName}

ReadOnlyParameters == {V_OUT, I_OUT, P_OUT, V_IN, PROTECT, CV_CC, MODEL, VERSION}
WritableIntegerParameters == {LOCK, ON_OFF, B_LED}
WritableScaledParameters == {V_SET, I_SET}
ScaledParameters == {V_SET, I_SET, V_OUT, I_OUT, P_OUT, V_IN}

\* the errors of the checks of set_parameter
CheckErrors == {UnknownParameter, NotWritable, TypeMismatch, NoValueRange, OutOfRange}

ResolvingCalls == {"get_parameter", "set_parameter", "get_parameter_info"}

\* the value is a whole number
IsWhole(value) == IsNumber(value) /\ value.n % Unit = 0
\* the value has at most two decimals
IsTwoDecimal(value) == IsNumber(value) /\ value.n % (Unit \div 100) = 0

Abs(x) == IF x < 0 THEN -x ELSE x

\* this step is a get_parameter of the parameter that the call before it,
\* a set_parameter that returned, has written
SetThenGet(parameters) ==
    /\ call.op = "set_parameter"
    /\ result.exc = ""
    /\ call.name.v \in parameters
    /\ call'.op = "get_parameter"
    /\ call'.name.v = call.name.v

-----------------------------------------------------------------------------
(* The properties *)

\* C1: for a writable integer parameter (LOCK, ON_OFF, B_LED) and an integer
\* v in its range, set_parameter(p, v) followed by get_parameter(p) returns
\* exactly v.
C1_IntegerRoundTrip ==
    [][(SetThenGet(WritableIntegerParameters) /\ IsIntegerType(call.value))
        => (result'.exc = "" /\ result'.ret.n = call.value.n)]_vars

\* C2: set_parameter on a read-only parameter raises the not-writable error,
\* whatever the type and the magnitude of the value, and writes nothing.
C2_ReadOnlyNotWritable ==
    (call.op = "set_parameter" /\ call.name.v \in ReadOnlyParameters)
        => (result.exc = NotWritable /\ io = <<>>)

C2_Witness ==
    /\ call.op = "set_parameter"
    /\ call.name = ParamNameArg(V_OUT)
    /\ call.value.t = "str"
    /\ result.exc = NotWritable

\* C3 as stated: for a writable parameter with a populated range, every value
\* below lo or above hi raises the out-of-range error.
C3_OutsideAlwaysOutOfRange ==
    (/\ call.op = "set_parameter"
     /\ call.name.v \in ParameterSpace
     /\ ParameterInfo[call.name.v].write
     /\ ParameterInfo[call.name.v].value_range # NoRange
     /\ IsNumber(call.value)
     /\ \/ call.value.n < ParameterInfo[call.name.v].value_range[1]
        \/ call.value.n > ParameterInfo[call.name.v].value_range[2])
        => result.exc = OutOfRange

\* C3 amended: for a writable parameter with a populated range and a number
\* that passes the type check (any number for a scaled parameter, an int or a
\* bool for an integer one), set_parameter raises the out-of-range error when
\* the number is below lo or above hi, and none of its checks raises when the
\* number is in [lo, hi], lo and hi included.
C3_RangeCheck ==
    (/\ call.op = "set_parameter"
     /\ call.name.v \in ParameterSpace
     /\ ParameterInfo[call.name.v].write
     /\ ParameterInfo[call.name.v].value_range # NoRange
     /\ IsNumber(call.value)
     /\ ParameterInfo[call.name.v].integer => IsIntegerType(call.value))
        => LET lo == ParameterInfo[call.name.v].value_range[1]
               hi == ParameterInfo[call.name.v].value_range[2]
           IN  IF call.value.n < lo \/ call.value.n > hi
               THEN result.exc = OutOfRange
               ELSE result.exc \notin CheckErrors

C3_Witness ==
    /\ call.op = "set_parameter"
    /\ call.name = ParamNameArg(V_SET)
    /\ call.value.n = ParameterInfo[V_SET].value_range[2]
    /\ call.value.n % (Unit \div 100) # 0
    /\ result.exc = ""

\* C4: set_parameter on a writable integer parameter raises the type error
\* when the value is not a whole number (0.5, a string), and does not raise it
\* when the value is an int or a bool.
C4_IntegerTypeCheck ==
    (call.op = "set_parameter" /\ call.name.v \in WritableIntegerParameters)
        => /\ ~IsWhole(call.value) => result.exc = TypeMismatch
           /\ IsIntegerType(call.value) => result.exc # TypeMismatch

C4_Witness ==
    /\ call.op = "set_parameter"
    /\ call.name = ParamNameArg(LOCK)
    /\ call.value = FloatValue(Unit \div 2)
    /\ result.exc = TypeMismatch

\* C5: an address in neither the parameter nor the setting address space,
\* raw or as an enum value, makes get_parameter, set_parameter and
\* get_parameter_info raise the unknown-parameter error with no transport
\* call issued.
C5_UnknownAddress ==
    (/\ call.op \in ResolvingCalls
     /\ call.name.v \notin ParameterSpace
     /\ call.name.v \notin SettingSpace)
        => (result.exc = UnknownParameter /\ io = <<>>)

C5_Witness ==
    /\ call.op = "get_parameter"
    /\ call.name = AddressArg(255)
    /\ result.exc = UnknownParameter
    /\ io = <<>>

\* C6: an address of the setting address space (0x12) is resolved by
\* get_parameter, set_parameter and get_parameter_info: none of them raises
\* the unknown-parameter error.
C6_SettingAddressResolves ==
    (call.op \in ResolvingCalls /\ call.name.v \in SettingSpace)
        => result.exc # UnknownParameter

\* C7: the keys of the dictionary a batch query returns are fixed per query,
\* whatever the registers hold.
C7_BatchKeys ==
    /\ call.op = "get_all_parameters" => DOMAIN result.data = 0..12
    /\ call.op = "get_all_variables" => DOMAIN result.data = 0..10
    /\ call.op = "get_all_measurements" => DOMAIN result.data = {2, 3, 4, 5}
    /\ call.op = "get_set_values" => DOMAIN result.data = {0, 1}
    /\ call.op = "get_full_state_info" => DOMAIN result.data = {6, 7, 8, 9}
    /\ call.op = "get_device_info" => DOMAIN result.data = {11, 12}

C7_Witness ==
    /\ call.op = "get_all_variables"
    /\ registers[V_OUT] = 1234
    /\ Cardinality(DOMAIN result.data) = 11

\* C8: a device of model 50.15 at an input voltage of 48 leaves, after
\* construction, the ranges [0, 48 / 1.1] for the set voltage, [0, 15] for the
\* set current and [0, 50 * 1.02] = [0, 51] for the over-voltage setting.
C8_DiscoveryScenario ==
    (state = "Ready" /\ registers[MODEL] = 5015 /\ registers[V_IN] = 4800)
        => /\ ParameterInfo[V_SET].value_range[1] = 0
           /\ ParameterInfo[V_SET].value_range[2] * 11 = 480 * Unit
           /\ ParameterInfo[I_SET].value_range = <<0, 15 * Unit>>
           /\ SettingInfo[OVP].value_range = <<0, 51 * Unit>>

C8_Witness ==
    /\ state = "Ready"
    /\ registers[MODEL] = 5015
    /\ registers[V_IN] = 4800
    /\ call.op = "__init__"
    /\ Len(io) = 2

\* C9: get_parameter on a scaled parameter returns the raw register times
\* 0.01, a float.
C9_ScaledRead ==
    (call.op = "get_parameter" /\ call.name.v \in ScaledParameters)
        => /\ result.exc = ""
           /\ result.ret.t = "float"
           /\ result.ret.n * 100 = registers[call.name.v] * Unit

C9_Witness ==
    /\ call.op = "get_parameter"
    /\ call.name = ParamNameArg(V_OUT)
    /\ registers[V_OUT] = 1234
    /\ result.ret = FloatValue((1234 * Unit) \div 100)

\* C10: for a writable scaled parameter (V_SET, I_SET) and a value x of its
\* range with at most two decimals, set_parameter(p, x) followed by
\* get_parameter(p) returns a value within 0.01 of x.
C10_ScaledRoundTrip ==
    [][(SetThenGet(WritableScaledParameters) /\ IsTwoDecimal(call.value))
        => (result'.exc = "" /\ Abs(result'.ret.n - call.value.n) <= Unit \div 100)]_vars

\* a read of the set voltage after 0.29 was written and stored as 28
C10_Witness ==
    /\ call.op = "get_parameter"
    /\ call.name = ParamNameArg(V_SET)
    /\ sets = 1
    /\ registers[V_SET] = 28
    /\ result.ret = FloatValue(28 * (Unit \div 100))

-----------------------------------------------------------------------------
\* C11: once construction has completed, every writable parameter and every
\* writable setting has a value range, whatever model and input voltage the
\* device reports, and no set_parameter call fails because the range is unset.
C11_RangesPopulated ==
    Ready =>
        /\ \A a \in ParamName :
            ParameterInfo[a].write => ParameterInfo[a].value_range # NoRange
        /\ \A a \in SettingName :
            SettingInfo[a].write => SettingInfo[a].value_range # NoRange
        /\ call.op = "set_parameter" => result.exc # NoValueRange

\* a set_parameter of I_SET, whose range comes from the device, has returned
C11_Witness ==
    /\ Ready
    /\ call.op = "set_parameter"
    /\ call.name.v = I_SET
    /\ call.value.n > 0
    /\ result.exc = ""

C13_CheckOrder ==
    (call.op = "set_parameter" /\ call.name.v \in ParamName) =>
        LET info == ParameterInfo[call.name.v]
            value == call.value
            outside == /\ info.value_range # NoRange
                       /\ IsNumber(value)
                       /\ \/ value.n < info.value_range[1]
                          \/ value.n > info.value_range[2]
        IN  /\ ~info.write => result.exc = NotWritable
            /\ (info.write /\ info.integer /\ ~IsIntegerType(value)) =>
                    result.exc = TypeMismatch
            /\ (info.write /\ (info.integer => IsIntegerType(value)) /\ outside) =>
                    result.exc = OutOfRange

\* LOCK was given a float above its range: the type error is raised
C13_Witness ==
    /\ call.op = "set_parameter"
    /\ call.name.v = LOCK
    /\ call.value.t = "float"
    /\ call.value.n > ParameterInfo[LOCK].value_range[2]
    /\ result.exc = TypeMismatch

\* C14: a set_parameter call that fails a check (unknown address, not
\* writable, wrong type, no range, out of range) issues no transport write and
\* leaves every register as it was; a write is issued only by a call whose
\* checks all passed, and such a call issues exactly one write_register, to
\* the address it was given.
C14_NoWriteOnFailure ==
    [][sets' = sets + 1 =>
        /\ result'.exc \in CheckErrors \cup {PyTypeError} =>
            /\ io' = <<>>
            /\ registers' = registers
        /\ result'.exc \notin CheckErrors \cup {PyTypeError} =>
            /\ Len(io') = 1
            /\ io'[1].f = "write_register"
            /\ io'[1].address = call'.name.v
            /\ \A a \in DOMAIN registers :
                a # call'.name.v => registers'[a] = registers[a]]_vars

\* a set_parameter of a writable parameter was refused for its range, nothing
\* was written
C14_Witness ==
    /\ call.op = "set_parameter"
    /\ call.name.v = V_SET
    /\ result.exc = OutOfRange
    /\ io = <<>>

\* C15: for a model register that encodes the voltage rating VV and the
\* two-digit current rating CC (raw 100 * VV + CC, read as VV.CC),
\* construction derives voltage VV and current CC: the upper bound of the
\* I_SET range is CC and the upper bound of the OVP range is VV * 1.02.
C15_ModelParsing ==
    Ready =>
        LET VV == registers[MODEL] \div 100
            CC == registers[MODEL] % 100
        IN  /\ ParameterInfo[I_SET].value_range = Range(0, CC * Unit)
            /\ SettingInfo[OVP].value_range = Range(0, (VV * 102 * Unit) \div 100)

\* C16: get_parameter on an integer parameter (LOCK, PROTECT, CV_CC, ON_OFF,
\* B_LED) returns the raw value of the register, unchanged, whatever the
\* register holds.
C16_IntegerRead ==
    (call.op = "get_parameter"
        /\ call.name.v \in {LOCK, PROTECT, CV_CC, ON_OFF, B_LED})
        => /\ result.exc = ""
           /\ result.ret.n = registers[call.name.v] * Unit

\* C17: each of the six batch queries issues one read_registers call, with a
\* start address and a count fixed for the query, and the value under each
\* key is the decoding of the register at that key's own address: times 0.01
\* for the scaled parameters, the raw value for the others.
C17_BatchSlots ==
    call.op \in BatchQueries =>
        /\ io = <<CASE call.op = "get_all_parameters" -> IoReads(0, 13)
                    [] call.op = "get_all_variables" -> IoReads(0, 11)
                    [] call.op = "get_all_measurements" -> IoReads(2, 4)
                    [] call.op = "get_set_values" -> IoReads(0, 2)
                    [] call.op = "get_full_state_info" -> IoReads(6, 4)
                    [] call.op = "get_device_info" -> IoReads(11, 2)>>
        /\ DOMAIN result.data = io[1].address .. (io[1].address + io[1].arg - 1)
        /\ \A key \in DOMAIN result.data :
            result.data[key] = IF key \in ScaledParameters
                               THEN Times001(registers[key])
                               ELSE Raw(registers[key])

\* get_all_measurements on a device whose V_OUT and I_OUT registers differ
C17_Witness ==
    /\ call.op = "get_all_measurements"
    /\ registers[V_OUT] = 1234
    /\ registers[I_OUT] # 1234
    /\ result.data[V_OUT] = Times001(1234)

\* C18: a set_parameter call given a SettingName is validated against the
\* SettingInfo record of that setting (its writability, integer flag and
\* range), not against the ParameterInfo record at the same address: it
\* raises the check error that SettingInfo gives, and none when SettingInfo
\* accepts the value.
C18_SettingValidatedAsSetting ==
    (call.op = "set_parameter" /\ call.name.k = "SettingName") =>
        LET expected == set_parameter_checks(
                SettingInfo, SettingInfo, call.name, call.value).exc
        IN  (result.exc \in CheckErrors \cup {PyTypeError} \/ expected # "")
                => result.exc = expected

\* C19: no accepted write overflows the register.  For every model and every
\* input voltage register, up to 65535, a value that passes the checks of a
\* top-level parameter is encoded (times 100 for a scaled parameter, as it is
\* for an integer parameter) to an integer of 0..65535, which the transport
\* stores.
C19_NoOverflow ==
    call.op = "set_parameter" =>
        /\ result.exc # TransportValueError
        /\ result.exc = "" =>
            /\ io = <<IoWrite(call.name.v,
                        IF ParameterInfo[call.name.v].integer THEN 0 ELSE 2)>>
            /\ registers[call.name.v] \in 0..RegisterMax
            /\ registers[call.name.v]
                    \in ScaledRaws(call.value, io[1].arg)

\* the largest voltage a device at input voltage register 65535 accepts,
\* 595.77, was written to V_SET
C19_Witness ==
    /\ call.op = "set_parameter"
    /\ call.name.v = V_SET
    /\ registers[V_IN] = RegisterMax
    /\ call.value = FloatValue(ParameterInfo[V_SET].value_range[2])
    /\ result.exc = ""
    /\ registers[V_SET] = 59577

====
